---- MODULE Spec2Model ----
(***************************************************************************)
(* Model of the time-zone converter of server.js: the offset resolver      *)
(* getOffset, the two civil-time resolvers convertTime and                 *)
(* calculateEpochFromTimezone, and the HTTP entry points that call them.   *)
(*                                                                         *)
(* Strings are sequences of one-character strings, so that split, Number   *)
(* and the formatter's padding are computed and not assumed.  An instant   *)
(* (a JS Date) is a record [sec, ms]: whole seconds since 1970-01-01T00:00Z*)
(* and the milliseconds within the second; its JS time value is            *)
(* sec * 1000 + ms, which does not fit TLC's 32-bit integers.              *)
(*                                                                         *)
(* Intermediate values are passed as operator parameters rather than bound *)
(* by LET, one operator per step of the computation.                       *)
(***************************************************************************)
EXTENDS Integers, Sequences, FiniteSets, TLC

(***************************************************************************)
(* Units                                                                   *)
(***************************************************************************)
MsPerSecond == 1000
MsPerMinute == 60000
SecPerMinute == 60
SecPerHour == 3600
SecPerDay == 86400
MinPerDay == 1440

(***************************************************************************)
(* JS values: a number, NaN or undefined                                   *)
(***************************************************************************)
Num(n) == [tag |-> "num", v |-> n]
NaN == [tag |-> "nan", v |-> 0]
Undefined == [tag |-> "undef", v |-> 0]

\* !x on a value produced by Number(): undefined, NaN and 0 are falsy
Falsy(x) == x.tag # "num" \/ x.v = 0
\* x == null
IsNullish(x) == x.tag = "undef"
\* Number.isNaN(x)
NumberIsNaN(x) == x.tag = "nan"

(***************************************************************************)
(* Strings                                                                 *)
(***************************************************************************)
DigitChars == <<"0", "1", "2", "3", "4", "5", "6", "7", "8", "9">>

IsDigit(c) == \E i \in 1..10 : DigitChars[i] = c
DigitVal(c) == (CHOOSE i \in 1..10 : DigitChars[i] = c) - 1

RECURSIVE DecimalValue(_)
DecimalValue(s) ==
  IF s = <<>> THEN 0
  ELSE DecimalValue(SubSeq(s, 1, Len(s) - 1)) * 10 + DigitVal(s[Len(s)])

AllDigits(s) == \A i \in 1..Len(s) : IsDigit(s[i])

\* Number(s) for a string s over the digits, "-", ":" and letters: the empty
\* string is 0, a run of digits its decimal value (with an optional sign),
\* anything else NaN
StringToNumber(s) ==
  IF s = <<>> THEN Num(0)
  ELSE IF AllDigits(s) THEN Num(DecimalValue(s))
  ELSE IF s[1] = "-" /\ Len(s) > 1 /\ AllDigits(Tail(s)) THEN Num(0 - DecimalValue(Tail(s)))
  ELSE NaN

\* the position of the first occurrence of the character sep in s
FirstIndexOf(s, sep) ==
  CHOOSE i \in 1..Len(s) : s[i] = sep /\ \A j \in 1..(i - 1) : s[j] # sep

\* s.split(sep): the pieces of s between the occurrences of the character sep
RECURSIVE Split(_, _)
RECURSIVE SplitAt(_, _, _)
SplitAt(s, sep, k) == <<SubSeq(s, 1, k - 1)>> \o Split(SubSeq(s, k + 1, Len(s)), sep)
Split(s, sep) ==
  IF \A i \in 1..Len(s) : s[i] # sep THEN <<s>> ELSE SplitAt(s, sep, FirstIndexOf(s, sep))

\* element i of pieces.map(Number), undefined when the array is shorter
NumberAt(pieces, i) == IF i <= Len(pieces) THEN StringToNumber(pieces[i]) ELSE Undefined

\* const [a, b, c] = s.split(sep).map(Number): the i-th destructured name
Component(s, sep, i) == NumberAt(Split(s, sep), i)

RECURSIVE NatToString(_)
NatToString(n) ==
  IF n < 10 THEN <<DigitChars[n + 1]>>
  ELSE NatToString(n \div 10) \o <<DigitChars[(n % 10) + 1]>>

\* padStart(width, "0")
RECURSIVE PadStart(_, _)
PadStart(s, width) == IF Len(s) >= width THEN s ELSE PadStart(<<"0">> \o s, width)

TwoDigit(n) == PadStart(NatToString(n), 2)

(***************************************************************************)
(* The calendar of Date.UTC and of the formatter (ECMAScript day numbers)  *)
(***************************************************************************)
\* DayFromYear(y): the day number of 1 January of year y
DayFromYear(y) ==
  365 * (y - 1970) + ((y - 1969) \div 4) - ((y - 1901) \div 100) + ((y - 1601) \div 400)

InLeapYear(y) == (y % 4 = 0 /\ y % 100 # 0) \/ y % 400 = 0

\* days of a common year before month m (1..12)
DaysBeforeMonth == <<0, 31, 59, 90, 120, 151, 181, 212, 243, 273, 304, 334>>

\* day within year y on which month m (1..12) starts, from 0
MonthStart(y, m) == DaysBeforeMonth[m] + (IF m > 2 /\ InLeapYear(y) THEN 1 ELSE 0)

\* day number of the civil date y-m-d, m in 1..12
DaysFromCivil(y, m, d) == DayFromYear(y) + MonthStart(y, m) + d - 1

\* MakeDay(year, month, date): the month index carries into the year
MakeDay(year, monthIndex, date) ==
  DaysFromCivil(year + (monthIndex \div 12), (monthIndex % 12) + 1, date)

\* Date.UTC reads a year from 0 to 99 as 1900 + year
FullYear(year) == IF year >= 0 /\ year <= 99 THEN 1900 + year ELSE year

\* Date.UTC(year, monthIndex, day, hour, minute, second), in seconds: fields out
\* of range carry into the next unit
DateUTC(year, monthIndex, day, hour, minute, second) ==
  MakeDay(FullYear(year), monthIndex, day) * SecPerDay
    + hour * SecPerHour + minute * SecPerMinute + second

\* new Date(Date.UTC(...)): an instant on a whole second
DateOf(sec) == [sec |-> sec, ms |-> 0]

\* YearFromTime: the year a day number (from 1970 on) falls in
YearFromDay(day) ==
  CHOOSE y \in (1970 + (day \div 366))..(1970 + (day \div 365)) :
    DayFromYear(y) <= day /\ day < DayFromYear(y + 1)

\* MonthFromTime: the month (1..12) of day dayInYear of year y
MonthFromDay(y, dayInYear) ==
  CHOOSE m \in 1..12 :
    MonthStart(y, m) <= dayInYear /\ (m = 12 \/ dayInYear < MonthStart(y, m + 1))

CivilOfMonth(y, dayInYear, m) == [year |-> y, month |-> m, day |-> dayInYear - MonthStart(y, m) + 1]
CivilOfDayInYear(y, dayInYear) == CivilOfMonth(y, dayInYear, MonthFromDay(y, dayInYear))
CivilOfYear(day, y) == CivilOfDayInYear(y, day - DayFromYear(y))

\* the civil date of a day number
CivilFromDays(day) == CivilOfYear(day, YearFromDay(day))

\* 0 = Sunday .. 6 = Saturday
WeekDay(day) == (day + 4) % 7

\* the first Sunday on or after a day
NextSunday(day) == day + ((7 - WeekDay(day)) % 7)

\* the first Sunday on or after y-m-d, as a day number
SundayOnOrAfter(y, m, d) == NextSunday(DaysFromCivil(y, m, d))

(***************************************************************************)
(* Time zones: what Intl.DateTimeFormat knows (the IANA rules in force)    *)
(***************************************************************************)
Santiago == "America/Santiago"
NewYork == "America/New_York"
BuenosAires == "America/Argentina/Buenos_Aires"
Bogota == "America/Bogota"
SantoDomingo == "America/Santo_Domingo"
\* a zone the formatter supports that is not in the application's list
Tokyo == "Asia/Tokyo"
\* an identifier the formatter does not know
UnknownZone == "Mars/Olympus"

\* the list literal repeated in convertTime, /current and /convert-multi
allZones == <<Santiago, NewYork, BuenosAires, Bogota, SantoDomingo>>

SupportedByFormatter == {Santiago, NewYork, BuenosAires, Bogota, SantoDomingo, Tokyo}

\* the UTC year of an instant given in seconds
YearOfSec(sec) == YearFromDay(sec \div SecPerDay)

\* Chile in year y: summer time (UTC-3) from the first Sunday on or after
\* 2 September, 04:00 UTC, to the first Sunday on or after 2 April, 03:00 UTC;
\* winter time (UTC-4) in between
SantiagoOffsetIn(sec, y) ==
  IF /\ SundayOnOrAfter(y, 4, 2) * SecPerDay + 3 * SecPerHour <= sec
     /\ sec < SundayOnOrAfter(y, 9, 2) * SecPerDay + 4 * SecPerHour
  THEN -240 ELSE -180
SantiagoOffset(sec) == SantiagoOffsetIn(sec, YearOfSec(sec))

\* US Eastern in year y: daylight time (UTC-4) from the second Sunday of March,
\* 07:00 UTC, to the first Sunday of November, 06:00 UTC; else UTC-5
NewYorkOffsetIn(sec, y) ==
  IF /\ SundayOnOrAfter(y, 3, 8) * SecPerDay + 7 * SecPerHour <= sec
     /\ sec < SundayOnOrAfter(y, 11, 1) * SecPerDay + 6 * SecPerHour
  THEN -240 ELSE -300
NewYorkOffset(sec) == NewYorkOffsetIn(sec, YearOfSec(sec))

\* minutes east of UTC of zone tz at the instant sec (seconds since the epoch)
ZoneOffset(tz, sec) ==
  CASE tz = Santiago -> SantiagoOffset(sec)
    [] tz = NewYork -> NewYorkOffset(sec)
    [] tz = BuenosAires -> -180
    [] tz = Bogota -> -300
    [] tz = SantoDomingo -> -240
    [] tz = Tokyo -> 540

ObservesDST(tz) == tz \in {Santiago, NewYork}

(***************************************************************************)
(* Intl.DateTimeFormat("en-US", {timeZone, hour12: false, ...})            *)
(***************************************************************************)
\* The hour cycle that hour12: false resolves to in the en-US locale depends
\* on the runtime: "h23" (hours 00..23) or "h24" (hours 01..24, midnight is 24).
HourCycles == {"h23", "h24"}

FieldsOf(civil, secondOfDay) ==
  [year |-> civil.year, month |-> civil.month, day |-> civil.day,
   hour |-> secondOfDay \div SecPerHour,
   minute |-> (secondOfDay % SecPerHour) \div SecPerMinute,
   second |-> secondOfDay % SecPerMinute]

\* the civil fields of a local time given as seconds since the epoch
FieldsOfLocal(local) == FieldsOf(CivilFromDays(local \div SecPerDay), local % SecPerDay)

\* the civil fields of instant date as observed in zone tz
LocalFields(date, tz) == FieldsOfLocal(date.sec + ZoneOffset(tz, date.sec) * SecPerMinute)

\* the hour field as printed under hour cycle hc
HourField(h, hc) == IF hc = "h24" /\ h = 0 THEN 24 ELSE h

PartsOf(f, hc) ==
  [year |-> NatToString(f.year), month |-> TwoDigit(f.month), day |-> TwoDigit(f.day),
   hour |-> TwoDigit(HourField(f.hour, hc)), minute |-> TwoDigit(f.minute),
   second |-> TwoDigit(f.second)]

\* dtf.formatToParts(date) without the literals: type -> value, as strings
formatToParts(date, tz, hc) == PartsOf(LocalFields(date, tz), hc)

HHMMOf(f, hc) == TwoDigit(HourField(f.hour, hc)) \o <<":">> \o TwoDigit(f.minute)

\* the formatter without its timeZone option: every zone gets the server's clock
formatHHMM_NoTimeZone(date, tz, hc) == HHMMOf(LocalFields(date, Santiago), hc)

\* new Intl.DateTimeFormat("en-US", {timeZone: tz, hour: "2-digit",
\*   minute: "2-digit", hour12: false}).format(date)
formatHHMM(date, tz, hc) == HHMMOf(LocalFields(date, tz), hc)

(***************************************************************************)
(* getOffset                                                               *)
(***************************************************************************)
\* asUTC: the formatted parts read back as UTC fields, in seconds
AsUTC(values) ==
  DateUTC(StringToNumber(values.year).v, StringToNumber(values.month).v - 1,
          StringToNumber(values.day).v, StringToNumber(values.hour).v,
          StringToNumber(values.minute).v, StringToNumber(values.second).v)

\* date.getTime() - asUTC, in milliseconds
MsSince(date, asUTC) == (date.sec - asUTC) * MsPerSecond + date.ms

\* getOffset without the sign flip of its last line
getOffsetMs_NoNegation(date, timeZone, hc) ==
  MsSince(date, AsUTC(formatToParts(date, timeZone, hc)))

\* getOffset(date, timeZone) * 60000.  The JS function returns
\* -((date.getTime() - asUTC) / 60000), a number of minutes that is a fraction
\* when the difference is no multiple of 60000; the model keeps the numerator,
\* in milliseconds, so that the value stays an integer.  Its callers multiply
\* the result by 60 * 1000, which gives this numerator back.
getOffsetMs(date, timeZone, hc) ==
  0 - MsSince(date, AsUTC(formatToParts(date, timeZone, hc)))

\* the value getOffset returns is a whole number of minutes
OffsetIsWholeMinutes(offMs) == offMs % MsPerMinute = 0

(***************************************************************************)
(* convertTime and calculateEpochFromTimezone                              *)
(***************************************************************************)
InvalidFormatMessage == "Invalid date or time format"
InvalidZoneMessage == "Invalid time zone specified"
MissingParamsMessage == "Missing date or time query parameters"

NoDate == [sec |-> 0, ms |-> 0]
NoResults == [keys |-> <<>>, vals |-> <<>>]

\* the instant ms milliseconds before the whole second sec
MinusMs(sec, ms) ==
  IF ms % MsPerSecond = 0 THEN [sec |-> sec - (ms \div MsPerSecond), ms |-> 0]
  ELSE [sec |-> sec - (ms \div MsPerSecond) - 1, ms |-> MsPerSecond - (ms % MsPerSecond)]

\* the five parsed fields of (dateStr, timeStr)
ParsedFields(dateStr, timeStr) ==
  [year |-> Component(dateStr, "-", 1), month |-> Component(dateStr, "-", 2),
   day |-> Component(dateStr, "-", 3),
   hour |-> Component(timeStr, ":", 1), minute |-> Component(timeStr, ":", 2)]

\* the condition with the minute tested for truthiness like the date fields
convertTimeCondition_FalsyMinute(p) ==
  \/ Falsy(p.year) \/ Falsy(p.month) \/ Falsy(p.day)
  \/ IsNullish(p.hour) \/ Falsy(p.minute)
  \/ NumberIsNaN(p.year) \/ NumberIsNaN(p.month) \/ NumberIsNaN(p.day)
  \/ NumberIsNaN(p.hour) \/ NumberIsNaN(p.minute)

\* the if-condition of convertTime on the parsed fields
convertTimeCondition(p) ==
  \/ Falsy(p.year) \/ Falsy(p.month) \/ Falsy(p.day)
  \/ IsNullish(p.hour) \/ IsNullish(p.minute)
  \/ NumberIsNaN(p.year) \/ NumberIsNaN(p.month) \/ NumberIsNaN(p.day)
  \/ NumberIsNaN(p.hour) \/ NumberIsNaN(p.minute)

\* the condition under which convertTime throws Error("Invalid date or time format")
convertTimeRejects(dateStr, timeStr) == convertTimeCondition(ParsedFields(dateStr, timeStr))

\* the second copy of the condition with the !day test lost
calculateEpochCondition_NoDayTest(p) ==
  \/ Falsy(p.year) \/ Falsy(p.month)
  \/ IsNullish(p.hour) \/ IsNullish(p.minute)
  \/ NumberIsNaN(p.year) \/ NumberIsNaN(p.month) \/ NumberIsNaN(p.day)
  \/ NumberIsNaN(p.hour) \/ NumberIsNaN(p.minute)

\* the if-condition of calculateEpochFromTimezone on the parsed fields
calculateEpochCondition(p) ==
  \/ Falsy(p.year) \/ Falsy(p.month) \/ Falsy(p.day)
  \/ IsNullish(p.hour) \/ IsNullish(p.minute)
  \/ NumberIsNaN(p.year) \/ NumberIsNaN(p.month) \/ NumberIsNaN(p.day)
  \/ NumberIsNaN(p.hour) \/ NumberIsNaN(p.minute)

\* the condition under which calculateEpochFromTimezone throws the same error
calculateEpochRejects(dateStr, timeStr) == calculateEpochCondition(ParsedFields(dateStr, timeStr))

\* Date.UTC(year, month - 1, day, hour, minute, 0) of the parsed fields
UTCOfFields(p) == DateUTC(p.year.v, p.month.v - 1, p.day.v, p.hour.v, p.minute.v, 0)

\* anchorUTC: the civil fields read as UTC
anchorUTC(dateStr, timeStr) == DateOf(UTCOfFields(ParsedFields(dateStr, timeStr)))

\* Date.UTC(fields) - offsetSource * 60 * 1000, offsetSource sampled at the anchor
EpochFromAnchor(anchor, sourceTimezone, hc) ==
  MinusMs(anchor.sec, getOffsetMs(anchor, sourceTimezone, hc))

\* epochUTC
epochUTC(dateStr, timeStr, sourceTimezone, hc) ==
  EpochFromAnchor(anchorUTC(dateStr, timeStr), sourceTimezone, hc)

\* the resolver with a catch around the offset lookup that rethrows the
\* formatter's failure as the input error
calculateEpochFromTimezone_TranslatesRangeError(dateStr, timeStr, sourceTimezone, hc) ==
  IF calculateEpochRejects(dateStr, timeStr) \/ sourceTimezone \notin SupportedByFormatter
  THEN [kind |-> "Error", message |-> InvalidFormatMessage, epoch |-> NoDate]
  ELSE [kind |-> "ok", message |-> "", epoch |-> epochUTC(dateStr, timeStr, sourceTimezone, hc)]

\* calculateEpochFromTimezone(dateStr, timeStr, sourceTimezone): the epoch, or
\* the error thrown (the formatter throws a RangeError for an unknown zone)
calculateEpochFromTimezone(dateStr, timeStr, sourceTimezone, hc) ==
  IF calculateEpochRejects(dateStr, timeStr)
  THEN [kind |-> "Error", message |-> InvalidFormatMessage, epoch |-> NoDate]
  ELSE IF sourceTimezone \notin SupportedByFormatter
  THEN [kind |-> "RangeError", message |-> InvalidZoneMessage, epoch |-> NoDate]
  ELSE [kind |-> "ok", message |-> "", epoch |-> epochUTC(dateStr, timeStr, sourceTimezone, hc)]

\* the keys of an object after an assignment to key tz: a new key goes last
KeysWith(keys, tz) ==
  IF \E i \in 1..Len(keys) : keys[i] = tz THEN keys ELSE Append(keys, tz)

ObjectWith(results, tz, formatted, keys) ==
  [keys |-> keys,
   vals |-> [k \in {keys[i] : i \in 1..Len(keys)} |->
               IF k = tz THEN formatted ELSE results.vals[k]]]

\* results[tz] = formatted
SetEntry(results, tz, formatted) ==
  ObjectWith(results, tz, formatted, KeysWith(results.keys, tz))

\* for (const tz of zones) results[tz] = format(date): the object built, as its
\* keys in insertion order and the value of each key
RECURSIVE FormatInto(_, _, _, _)
FormatInto(results, zones, date, hc) ==
  IF zones = <<>> THEN results
  ELSE FormatInto(SetEntry(results, Head(zones), formatHHMM(date, Head(zones), hc)),
                  Tail(zones), date, hc)

\* the filter left out: the source zone stays in the list
FilterOutSource_KeepAll(zones, sourceTimezone) == zones

\* allZones.filter((tz) => tz !== sourceTimezone)
FilterOutSource(zones, sourceTimezone) == SelectSeq(zones, LAMBDA tz : tz # sourceTimezone)

Failure(kind, message) ==
  [kind |-> kind, message |-> message, epoch |-> NoDate, results |-> NoResults]

\* the loop over zones at the instant date, and what is returned
ConvertedAt(date, zones, hc) ==
  [kind |-> "ok", message |-> "", epoch |-> date, results |-> FormatInto(NoResults, zones, date, hc)]

\* convertTime(dateStr, timeStr, sourceTimezone)
convertTime(dateStr, timeStr, sourceTimezone, hc) ==
  IF convertTimeRejects(dateStr, timeStr) THEN Failure("Error", InvalidFormatMessage)
  ELSE IF sourceTimezone \notin SupportedByFormatter THEN Failure("RangeError", InvalidZoneMessage)
  ELSE ConvertedAt(epochUTC(dateStr, timeStr, sourceTimezone, hc),
                   FilterOutSource(allZones, sourceTimezone), hc)

\* the loop of /current and /convert-multi run on what calculateEpochFromTimezone gave
ConvertAllFrom(e, zones, hc) ==
  IF e.kind # "ok" THEN Failure(e.kind, e.message) ELSE ConvertedAt(e.epoch, zones, hc)

\* the all-zones loop run over the legacy path's filtered list
convertAll_FilterSource(dateStr, timeStr, sourceTimezone, hc) ==
  ConvertAllFrom(calculateEpochFromTimezone(dateStr, timeStr, sourceTimezone, hc),
                 SelectSeq(allZones, LAMBDA tz : tz # sourceTimezone), hc)

\* the try block of /current and /convert-multi: the epoch, then every listed zone
convertAll(dateStr, timeStr, sourceTimezone, hc) ==
  ConvertAllFrom(calculateEpochFromTimezone(dateStr, timeStr, sourceTimezone, hc), allZones, hc)

(***************************************************************************)
(* The HTTP entry points                                                   *)
(***************************************************************************)
\* a query parameter: absent (undefined) or present with a string value
Absent(empty) == [present |-> FALSE, s |-> empty]
Present(str) == [present |-> TRUE, s |-> str]

\* a test for undefined only: an empty value counts as given
MissingParam_AbsentOnly(param) == ~param.present

\* !param for a date or time parameter: undefined and "" are falsy
MissingParam(param) == ~param.present \/ param.s = <<>>

\* the source parameter used as it comes, without the fallback
SourceOrDefault_NoDefault(param) == param.s

\* source || "America/Santiago"
SourceOrDefault(param) == IF ~param.present \/ param.s = "" THEN Santiago ELSE param.s

\* sourceTimezone = "America/Santiago" in convertTime's parameter list: the
\* default applies when the argument is not given
DefaultArgument(arg) == IF ~arg.present THEN Santiago ELSE arg.s

NoBody == [kind |-> "none", message |-> "", results |-> NoResults,
           date |-> <<>>, time |-> <<>>, timezone |-> ""]
NoResponse == [status |-> 0, body |-> NoBody]
ErrorBody(message) ==
  [kind |-> "error", message |-> message, results |-> NoResults,
   date |-> <<>>, time |-> <<>>, timezone |-> ""]
ConversionsBody(results) ==
  [kind |-> "conversions", message |-> "", results |-> results,
   date |-> <<>>, time |-> <<>>, timezone |-> ""]

\* now.toISOString().split("T")[0]: the UTC calendar date of now
ISODateOf(civil) ==
  PadStart(NatToString(civil.year), 4) \o <<"-">> \o TwoDigit(civil.month)
    \o <<"-">> \o TwoDigit(civil.day)
ISODate(date) == ISODateOf(CivilFromDays(date.sec \div SecPerDay))

\* the try / catch of /current around the conversion r
CurrentAnswer(currentDate, chileTime, r) ==
  IF r.kind = "ok"
  THEN [status |-> 200,
        body |-> [kind |-> "current", message |-> "", results |-> r.results,
                  date |-> currentDate, time |-> chileTime, timezone |-> Santiago]]
  ELSE [status |-> 500, body |-> ErrorBody(r.message)]

CurrentFor(currentDate, chileTime, hc) ==
  CurrentAnswer(currentDate, chileTime, convertAll(currentDate, chileTime, Santiago, hc))

\* GET /current at clock reading date
currentResponse(date, hc) == CurrentFor(ISODate(date), formatHHMM(date, Santiago, hc), hc)

\* the catch block answering as /current's does, with status 500
ConversionAnswer_Status500(r) ==
  IF r.kind = "ok" THEN [status |-> 200, body |-> ConversionsBody(r.results)]
  ELSE [status |-> 500, body |-> ErrorBody(r.message)]

\* the try / catch of /convert-multi and /convert around the conversion r
ConversionAnswer(r) ==
  IF r.kind = "ok" THEN [status |-> 200, body |-> ConversionsBody(r.results)]
  ELSE [status |-> 400, body |-> ErrorBody(r.message)]

\* GET /convert-multi?date=..&time=..&source=..
convertMultiResponse(q, hc) ==
  IF MissingParam(q.date) \/ MissingParam(q.time)
  THEN [status |-> 400, body |-> ErrorBody(MissingParamsMessage)]
  ELSE ConversionAnswer(convertAll(q.date.s, q.time.s, SourceOrDefault(q.source), hc))

\* GET /convert?date=..&time=..&source=..
convertResponse(q, hc) ==
  IF MissingParam(q.date) \/ MissingParam(q.time)
  THEN [status |-> 400, body |-> ErrorBody(MissingParamsMessage)]
  ELSE ConversionAnswer(convertTime(q.date.s, q.time.s, SourceOrDefault(q.source), hc))

(***************************************************************************)
(* The calls an operation makes, in order: the resolver entered, getOffset *)
(* (which builds the source zone's formatter and throws when the zone is   *)
(* unknown), and one "format" for each zone formatted                      *)
(***************************************************************************)
NoCalls == <<>>

\* one formatter built and applied for each zone of the loop
FormatCalls(zones) == [i \in 1..Len(zones) |-> "format"]

\* after the validation: the offset lookup, then the loop unless the lookup threw
CallsAfterValidation(sourceTimezone, zones) ==
  <<"getOffset">> \o (IF sourceTimezone \in SupportedByFormatter THEN FormatCalls(zones) ELSE <<>>)

\* convertTime: the validation comes first and ends the call when it throws
convertTimeCalls(dateStr, timeStr, sourceTimezone) ==
  <<"convertTime">> \o
    (IF convertTimeRejects(dateStr, timeStr) THEN <<>>
     ELSE CallsAfterValidation(sourceTimezone, FilterOutSource(allZones, sourceTimezone)))

\* calculateEpochFromTimezone: the validation, then the offset lookup
calculateEpochCalls(dateStr, timeStr, sourceTimezone) ==
  <<"calculateEpochFromTimezone">> \o
    (IF calculateEpochRejects(dateStr, timeStr) THEN <<>> ELSE <<"getOffset">>)

\* the try block of /current and /convert-multi: the epoch, then the loop
\* unless calculateEpochFromTimezone threw
convertAllCalls(dateStr, timeStr, sourceTimezone) ==
  <<"calculateEpochFromTimezone">> \o
    (IF calculateEpochRejects(dateStr, timeStr) THEN <<>>
     ELSE CallsAfterValidation(sourceTimezone, allZones))

\* /current formats the Chile time before its try block
currentCalls(date, hc) ==
  <<"format">> \o convertAllCalls(ISODate(date), formatHHMM(date, Santiago, hc), Santiago)

\* /convert-multi and /convert return before any call when date or time is missing
convertMultiCalls(q) ==
  IF MissingParam(q.date) \/ MissingParam(q.time) THEN NoCalls
  ELSE convertAllCalls(q.date.s, q.time.s, SourceOrDefault(q.source))

convertCalls(q) ==
  IF MissingParam(q.date) \/ MissingParam(q.time) THEN NoCalls
  ELSE convertTimeCalls(q.date.s, q.time.s, SourceOrDefault(q.source))

(***************************************************************************)
(* Inputs                                                                  *)
(***************************************************************************)
\* days taken on each side of every reference date
DaySpan == 1

\* 2025-01-15, the 2025 transition dates of Santiago, and the start of
\* daylight time in New York
ReferenceDates == {<<2025, 1, 15>>, <<2025, 4, 6>>, <<2025, 9, 7>>, <<2025, 3, 9>>}

CivilDates ==
  {CivilFromDays(DaysFromCivil(r[1], r[2], r[3]) + k) : r \in ReferenceDates, k \in (0 - DaySpan)..DaySpan}

\* midnight, the hours after it in which the transitions fall, the afternoon
\* and the last hour of the day
ClockTimes == {<<0, 0>>, <<0, 30>>, <<1, 30>>, <<2, 30>>, <<3, 30>>, <<5, 30>>,
               <<14, 0>>, <<14, 30>>, <<23, 30>>}

\* "YYYY-MM-DD" and "HH:MM" as the front end and well-behaved clients write them
DateString(c) ==
  PadStart(NatToString(c.year), 4) \o <<"-">> \o TwoDigit(c.month) \o <<"-">> \o TwoDigit(c.day)
TimeString(h, m) == TwoDigit(h) \o <<":">> \o TwoDigit(m)

WellFormedDates == {DateString(c) : c \in CivilDates}
WellFormedTimes == {TimeString(c[1], c[2]) : c \in ClockTimes}

SampleDate == <<"2", "0", "2", "5", "-", "0", "1", "-", "1", "5">>
SampleTime == <<"1", "4", ":", "3", "0">>

\* dates with a component out of range, zero, non-numeric or missing
OutOfRangeDates == {<<"2", "0", "2", "5", "-", "1", "3", "-", "0", "1">>,
                    <<"2", "0", "2", "5", "-", "0", "2", "-", "3", "2">>}
ZeroDates == {<<"2", "0", "2", "5", "-", "0", "1", "-", "0", "0">>,
              <<"2", "0", "2", "5", "-", "0", "0", "-", "1", "5">>,
              <<"0", "0", "0", "0", "-", "0", "1", "-", "1", "5">>}
NonNumericDates == {<<"2", "0", "2", "5", "-", "0", "1", "-", "1", "x">>,
                    <<"2", "0", "2", "5", "-", "x", "x", "-", "1", "5">>,
                    <<"x", "-", "0", "1", "-", "1", "5">>}
MissingFieldDates == {<<"2", "0", "2", "5", "-", "0", "1">>, <<"2", "0", "2", "5">>}
EmptyString == <<>>
MalformedDates == OutOfRangeDates \cup ZeroDates \cup NonNumericDates \cup MissingFieldDates
                    \cup {EmptyString}

\* times with a component out of range, non-numeric or missing
OutOfRangeTimes == {<<"2", "5", ":", "6", "1">>, <<"2", "4", ":", "0", "0">>,
                    <<"1", "4", ":", "6", "0">>, <<"-", "1", ":", "3", "0">>}
NonNumericTimes == {<<"1", "x", ":", "3", "0">>, <<"1", "4", ":", "3", "x">>, <<"x">>}
\* no minute: without the separator, and with nothing after it
MissingMinuteTimes == {<<"1", "4">>, <<"1", "4", ":">>}
MalformedTimes == OutOfRangeTimes \cup NonNumericTimes \cup MissingMinuteTimes \cup {EmptyString}

\* what a caller may pass: every well-formed pair, and every malformed string
\* beside a well-formed partner
StringInputs ==
  (WellFormedDates \X WellFormedTimes)
    \cup (MalformedDates \X {SampleTime}) \cup ({SampleDate} \X MalformedTimes)
    \cup ({EmptyString} \X {EmptyString})

SourceZones == SupportedByFormatter \cup {UnknownZone}

\* the third argument of a resolver call: a zone, or not given
SourceArguments == {Present(z) : z \in SourceZones} \cup {Absent("")}

\* clock readings and getOffset arguments: instants on and off the whole second
Millis == {0, 500}
Instants ==
  {[sec |-> DateUTC(c.year, c.month - 1, c.day, t[1], t[2], 0), ms |-> ms] :
     c \in CivilDates, t \in ClockTimes, ms \in Millis}

\* the queries of a request: every string input with every source zone, and an
\* absent or empty parameter beside sample values of the others
QuerySources == {Present(z) : z \in SourceZones \cup {""}} \cup {Absent("")}
Queries ==
  {[date |-> Present(p[1]), time |-> Present(p[2]), source |-> Present(z)] :
     p \in StringInputs, z \in SourceZones}
  \cup {[date |-> d, time |-> t, source |-> src] :
          d \in {Present(SampleDate), Present(EmptyString), Absent(<<>>)},
          t \in {Present(SampleTime), Present(TimeString(0, 30)), Present(EmptyString), Absent(<<>>)},
          src \in QuerySources}
NoQuery == [date |-> Absent(<<>>), time |-> Absent(<<>>), source |-> Absent("")]

(***************************************************************************)
(* State machine: one operation at a time, run to completion               *)
(***************************************************************************)
VARIABLES
  hourCycle,      \* the hour cycle of the runtime's en-US formatter
  pc,             \* "idle", or "done" once an operation has returned
  op,             \* the operation that ran
  dateStr,        \* its date string argument
  timeStr,        \* its time string argument
  sourceTimezone, \* its zone argument (timeZone for getOffset)
  now,            \* its Date argument (getOffset) or the clock reading (/current)
  query,          \* the query of the request (/convert, /convert-multi)
  ret,            \* what the function returned or threw
  res,            \* the HTTP response written
  calls,          \* the calls the operation made, in order
  inflight        \* the requests the server has accepted: slot -> request

VARIABLES
  userTimezone,       \* the browser's zone
  lastEditedTimezone, \* the script's variable of that name
  isUpdating,         \* the script's guard flag
  dateInput,          \* value of the date input
  timeInputs,         \* zone -> value of that card's time input
  cardValue,          \* zone -> the value property set on the card element
  ampm,               \* zone -> text of the card's AM/PM display
  highlighted,        \* the cards that carry the active class
  statusMessage,      \* class of the status message
  load,               \* where loadInitialTimes stands
  tasks,              \* the convertTimes calls waiting for fetch or for json()
  nextId,             \* number of the next convertTimes call
  lastEdit,           \* the most recent edit of a time input the handler took up
  suppressed,         \* an edit was dropped because isUpdating was set
  failed,             \* a request of the page failed
  edits               \* number of edits the user has made

serverVars == <<pc, op, dateStr, timeStr, sourceTimezone, now, query, ret, res, calls>>
pageVars == <<userTimezone, lastEditedTimezone, isUpdating, dateInput, timeInputs, cardValue,
              ampm, highlighted, statusMessage, load, tasks, nextId, lastEdit, suppressed, failed,
              edits>>
vars == <<hourCycle, serverVars, inflight, pageVars>>

NoReturn == [kind |-> "none", message |-> "", epoch |-> NoDate, results |-> NoResults, offsetMs |-> 0]
OffsetReturned(offsetMs) ==
  [kind |-> "ok", message |-> "", epoch |-> NoDate, results |-> NoResults, offsetMs |-> offsetMs]
ConversionReturned(r) ==
  [kind |-> r.kind, message |-> r.message, epoch |-> r.epoch, results |-> r.results, offsetMs |-> 0]
EpochReturned(e) ==
  [kind |-> e.kind, message |-> e.message, epoch |-> e.epoch, results |-> NoResults, offsetMs |-> 0]

\* no request accepted yet
NoRequest == [state |-> "free", endpoint |-> "", query |-> NoQuery, at |-> NoDate, response |-> NoResponse]

\* no page open in a browser
NoPage ==
  /\ userTimezone = ""
  /\ lastEditedTimezone = ""
  /\ isUpdating = FALSE
  /\ dateInput = <<>>
  /\ timeInputs = <<>>
  /\ cardValue = <<>>
  /\ ampm = <<>>
  /\ highlighted = {}
  /\ statusMessage = ""
  /\ load = [stage |-> "none", data |-> NoBody, at |-> NoDate]
  /\ tasks = {}
  /\ nextId = 0
  /\ lastEdit = [kind |-> "none", timezone |-> "", date |-> <<>>, time |-> <<>>, taken |-> FALSE,
                 early |-> FALSE]
  /\ suppressed = FALSE
  /\ failed = FALSE
  /\ edits = 0

Init ==
  /\ hourCycle \in HourCycles
  /\ inflight = <<>>
  /\ NoPage
  /\ pc = "idle"
  /\ op = "none"
  /\ dateStr = <<>>
  /\ timeStr = <<>>
  /\ sourceTimezone = ""
  /\ now = NoDate
  /\ query = NoQuery
  /\ ret = NoReturn
  /\ res = NoResponse
  /\ calls = NoCalls

\* getOffset(date, timeZone), called with a zone the formatter supports
GetOffset ==
  /\ pc = "idle"
  /\ \E date \in Instants, tz \in SupportedByFormatter :
       /\ now' = date
       /\ sourceTimezone' = tz
       /\ ret' = OffsetReturned(getOffsetMs(date, tz, hourCycle))
  /\ calls' = <<"getOffset">>
  /\ op' = "getOffset"
  /\ pc' = "done"
  /\ UNCHANGED <<hourCycle, dateStr, timeStr, query, res, inflight, pageVars>>

\* convertTime(dateStr, timeStr, sourceTimezone), or convertTime(dateStr, timeStr)
ConvertTime ==
  /\ pc = "idle"
  /\ \E p \in StringInputs, arg \in SourceArguments :
       /\ dateStr' = p[1]
       /\ timeStr' = p[2]
       /\ query' = [NoQuery EXCEPT !.source = arg]
       /\ sourceTimezone' = DefaultArgument(arg)
       /\ ret' = ConversionReturned(convertTime(p[1], p[2], DefaultArgument(arg), hourCycle))
       /\ calls' = convertTimeCalls(p[1], p[2], DefaultArgument(arg))
  /\ op' = "convertTime"
  /\ pc' = "done"
  /\ UNCHANGED <<hourCycle, now, res, inflight, pageVars>>

\* calculateEpochFromTimezone(dateStr, timeStr, sourceTimezone)
CalculateEpoch ==
  /\ pc = "idle"
  /\ \E p \in StringInputs, src \in SourceZones :
       /\ dateStr' = p[1]
       /\ timeStr' = p[2]
       /\ sourceTimezone' = src
       /\ ret' = EpochReturned(calculateEpochFromTimezone(p[1], p[2], src, hourCycle))
       /\ calls' = calculateEpochCalls(p[1], p[2], src)
  /\ op' = "calculateEpochFromTimezone"
  /\ pc' = "done"
  /\ UNCHANGED <<hourCycle, now, query, res, inflight, pageVars>>

\* GET /current
HandleCurrent ==
  /\ pc = "idle"
  /\ \E date \in Instants :
       /\ now' = date
       /\ dateStr' = ISODate(date)
       /\ timeStr' = formatHHMM(date, Santiago, hourCycle)
       /\ res' = currentResponse(date, hourCycle)
       /\ calls' = currentCalls(date, hourCycle)
  /\ sourceTimezone' = Santiago
  /\ op' = "/current"
  /\ pc' = "done"
  /\ UNCHANGED <<hourCycle, query, ret, inflight, pageVars>>

\* GET /convert-multi
HandleConvertMulti ==
  /\ pc = "idle"
  /\ \E q \in Queries :
       /\ query' = q
       /\ dateStr' = q.date.s
       /\ timeStr' = q.time.s
       /\ sourceTimezone' = SourceOrDefault(q.source)
       /\ res' = convertMultiResponse(q, hourCycle)
       /\ calls' = convertMultiCalls(q)
  /\ op' = "/convert-multi"
  /\ pc' = "done"
  /\ UNCHANGED <<hourCycle, now, ret, inflight, pageVars>>

\* GET /convert
HandleConvert ==
  /\ pc = "idle"
  /\ \E q \in Queries :
       /\ query' = q
       /\ dateStr' = q.date.s
       /\ timeStr' = q.time.s
       /\ sourceTimezone' = SourceOrDefault(q.source)
       /\ res' = convertResponse(q, hourCycle)
       /\ calls' = convertCalls(q)
  /\ op' = "/convert"
  /\ pc' = "done"
  /\ UNCHANGED <<hourCycle, now, ret, inflight, pageVars>>

\* the operation has returned; the next one starts from scratch
Return ==
  /\ pc = "done"
  /\ pc' = "idle"
  /\ op' = "none"
  /\ dateStr' = <<>>
  /\ timeStr' = <<>>
  /\ sourceTimezone' = ""
  /\ now' = NoDate
  /\ query' = NoQuery
  /\ ret' = NoReturn
  /\ res' = NoResponse
  /\ calls' = NoCalls
  /\ UNCHANGED <<hourCycle, inflight, pageVars>>

Next ==
  \/ GetOffset
  \/ ConvertTime
  \/ CalculateEpoch
  \/ HandleCurrent
  \/ HandleConvertMulti
  \/ HandleConvert
  \/ Return

Spec == Init /\ [][Next]_vars

\* a runtime whose formatter resolves hour12: false to the h23 cycle
InitH23 == Init /\ hourCycle = "h23"
SpecH23 == InitH23 /\ [][Next]_vars

(***************************************************************************)
(* The server with several requests accepted at a time.  Each of the three *)
(* JSON handlers runs from its first line to res.end() without yielding,   *)
(* so requests interleave in the order they are accepted, served and       *)
(* finished, never inside a handler.                                       *)
(***************************************************************************)
\* the requests the server may hold at a time
MaxInFlight == 2
Slots == 1..MaxInFlight

\* the queries the concurrent clients send: two sources and the default, a date
\* that is no number, and a request without its date
ConcurrentQueries ==
  {[date |-> Present(SampleDate), time |-> Present(SampleTime), source |-> src] :
     src \in {Present(Santiago), Present(NewYork), Absent("")}}
  \cup {[date |-> Present(d), time |-> Present(SampleTime), source |-> Present(NewYork)] :
          d \in {<<"2", "0", "2", "5", "-", "x", "x", "-", "1", "5">>}}
  \cup {[date |-> Absent(<<>>), time |-> Present(SampleTime), source |-> Present(Santiago)]}

ConcurrentRequests ==
  {[endpoint |-> ep, query |-> q] : ep \in {"/convert-multi", "/convert"}, q \in ConcurrentQueries}
  \cup {[endpoint |-> "/current", query |-> NoQuery]}

\* the clock readings of the /current handler: an afternoon and a night in UTC
ConcurrentInstants ==
  {[sec |-> DateUTC(2025, 0, 15, 17, 30, 0), ms |-> 0],
   [sec |-> DateUTC(2025, 6, 15, 2, 30, 0), ms |-> 500]}

\* the dispatch on pathname of the request handler
HandlerResponse(endpoint, q, at, hc) ==
  CASE endpoint = "/current" -> currentResponse(at, hc)
    [] endpoint = "/convert-multi" -> convertMultiResponse(q, hc)
    [] endpoint = "/convert" -> convertResponse(q, hc)

\* a response object kept outside the handler: every request waiting gets
\* the response written
Answered_SharedResponse(requests, slot, at, response) ==
  [s \in DOMAIN requests |->
     IF requests[s].state = "pending"
     THEN [requests[s] EXCEPT !.state = "answered", !.at = at, !.response = response]
     ELSE requests[s]]

\* res.writeHead(...); res.end(...) on the res of the handler's own request
Answered(requests, slot, at, response) ==
  [requests EXCEPT ![slot] = [@ EXCEPT !.state = "answered", !.at = at, !.response = response]]

\* the clock the handler reads: only /current reads it
ClockRead(endpoint, at) == IF endpoint = "/current" THEN at ELSE NoDate

InitConcurrent ==
  /\ hourCycle \in HourCycles
  /\ inflight = [s \in Slots |-> NoRequest]
  /\ NoPage
  /\ pc = "idle"
  /\ op = "none"
  /\ dateStr = <<>>
  /\ timeStr = <<>>
  /\ sourceTimezone = ""
  /\ now = NoDate
  /\ query = NoQuery
  /\ ret = NoReturn
  /\ res = NoResponse
  /\ calls = NoCalls

\* a request arrives: the "request" event is queued
Accept ==
  /\ \E s \in Slots, r \in ConcurrentRequests :
       /\ inflight[s].state = "free"
       /\ inflight' = [inflight EXCEPT ![s] = [NoRequest EXCEPT !.state = "pending",
                                                 !.endpoint = r.endpoint, !.query = r.query]]
  /\ UNCHANGED <<hourCycle, serverVars, pageVars>>

\* the handler runs for one of the queued requests, start to end
Serve ==
  /\ \E s \in Slots, at \in ConcurrentInstants :
       /\ inflight[s].state = "pending"
       /\ inflight' = Answered(inflight, s, ClockRead(inflight[s].endpoint, at),
                                HandlerResponse(inflight[s].endpoint, inflight[s].query, at, hourCycle))
  /\ UNCHANGED <<hourCycle, serverVars, pageVars>>

\* the response has been sent; the request is gone
Finish ==
  /\ \E s \in Slots :
       /\ inflight[s].state = "answered"
       /\ inflight' = [inflight EXCEPT ![s] = NoRequest]
  /\ UNCHANGED <<hourCycle, serverVars, pageVars>>

NextConcurrent == Accept \/ Serve \/ Finish

SpecConcurrent == InitConcurrent /\ [][NextConcurrent]_vars

(***************************************************************************)
(* The request handler as a whole: every route, the fs.readFile callbacks  *)
(* of the static routes, and an exception that leaves the handler.  A      *)
(* pathname is its sequence of segments, "/" the empty one; a segment is a *)
(* name and its extension.                                                 *)
(***************************************************************************)
Seg(name, ext) == [name |-> name, ext |-> ext]
DotDot == Seg("..", "")

\* __dirname and the static directory in it
ServerDir == <<Seg("app", "")>>
StaticDir == ServerDir \o <<Seg("static", "")>>

IndexHtml == Seg("index", ".html")
ScriptJs == Seg("script", ".js")
StylesCss == Seg("styles", ".css")
ServerJs == Seg("server", ".js")

\* path.normalize: a ".." segment takes back the segment before it, and at
\* the root it is dropped
RECURSIVE NormalizeInto(_, _)
NormalizeInto(done, segs) ==
  IF segs = <<>> THEN done
  ELSE IF Head(segs) = DotDot
  THEN NormalizeInto(IF done = <<>> THEN done ELSE SubSeq(done, 1, Len(done) - 1), Tail(segs))
  ELSE NormalizeInto(Append(done, Head(segs)), Tail(segs))

\* path.join(dir, ...segs): the segments put together, then normalized
pathJoin(dir, segs) == NormalizeInto(<<>>, dir \o segs)

\* path.extname(filePath).toLowerCase(); the extensions of the model are
\* written in lower case
ExtName(filePath) == IF filePath = <<>> THEN "" ELSE filePath[Len(filePath)].ext

\* mimeTypes[ext] || "application/octet-stream"
MimeTypeOf(ext) ==
  CASE ext = ".html" -> "text/html"
    [] ext = ".js" -> "application/javascript"
    [] ext = ".css" -> "text/css"
    [] ext = ".png" -> "image/png"
    [] ext \in {".jpg", ".jpeg"} -> "image/jpeg"
    [] ext = ".svg" -> "image/svg+xml"
    [] ext = ".ico" -> "image/x-icon"
    [] OTHER -> "application/octet-stream"

\* the files on the server's disk: the three static assets, the server's own
\* source beside the static directory, and a file outside the application
FilesOnDisk ==
  {StaticDir \o <<IndexHtml>>, StaticDir \o <<ScriptJs>>, StaticDir \o <<StylesCss>>,
   ServerDir \o <<ServerJs>>, <<Seg("etc", ""), Seg("passwd", "")>>}

\* how fs.readFile can call back: with the data of a file that is there, or
\* with an error (no such file, a directory, no permission)
ReadOutcomes(filePath) == IF filePath \in FilesOnDisk THEN {"data", "err"} ELSE {"err"}

\* a request target in origin form ("/path?query") and in absolute form
\* ("http://auth@host/path?query")
OriginForm(path, q) == [form |-> "origin", auth |-> "", path |-> path, query |-> q]
AbsoluteForm(auth, path, q) == [form |-> "absolute", auth |-> auth, path |-> path, query |-> q]
NoTarget == OriginForm(<<>>, NoQuery)

\* decodeURIComponent succeeds on the auth part: a lone "%" is malformed
Decodable(auth) == auth # "%"

\* url.parse(req.url, true): pathname and query, percent escapes and dot
\* segments of the path left as they are; an absolute-form target whose auth
\* part cannot be decoded makes it throw a URIError
urlParse(target) ==
  IF target.form = "absolute" /\ ~Decodable(target.auth)
  THEN [kind |-> "URIError", pathname |-> <<>>, query |-> NoQuery]
  ELSE [kind |-> "ok", pathname |-> target.path, query |-> target.query]

\* the if-chain of the handler on method and pathname
RouteOf(method, pathname) ==
  IF method # "GET" THEN "fallback"
  ELSE CASE pathname = <<>> -> "/"
         [] pathname = <<ScriptJs>> -> "/script.js"
         [] pathname = <<StylesCss>> -> "/styles.css"
         [] pathname = <<Seg("current", "")>> -> "/current"
         [] pathname = <<Seg("convert-multi", "")>> -> "/convert-multi"
         [] pathname = <<Seg("convert", "")>> -> "/convert"
         [] OTHER -> "fallback"

JsonRoutes == {"/current", "/convert-multi", "/convert"}

\* the file the route reads
FileOfRoute(route, pathname) ==
  CASE route = "/" -> pathJoin(ServerDir, <<Seg("static", ""), IndexHtml>>)
    [] route = "/script.js" -> pathJoin(ServerDir, <<Seg("static", ""), ScriptJs>>)
    [] route = "/styles.css" -> pathJoin(ServerDir, <<Seg("static", ""), StylesCss>>)
    [] OTHER -> pathJoin(ServerDir, <<Seg("static", "")>> \o pathname)

\* the Content-Type of the route's 200 response
ContentTypeOfRoute(route, filePath) ==
  CASE route = "/" -> "text/html"
    [] route = "/script.js" -> "application/javascript"
    [] route = "/styles.css" -> "text/css"
    [] OTHER -> MimeTypeOf(ExtName(filePath))

\* the status of the route's error branch
ErrorStatusOfRoute(route) == IF route = "fallback" THEN 404 ELSE 500

\* a request and what has been written to its res
NoExchange ==
  [state |-> "free", method |-> "", target |-> NoTarget, route |-> "", filePath |-> <<>>,
   heads |-> 0, ends |-> 0, status |-> 0, contentType |-> "", json |-> NoBody, file |-> <<>>]

\* res.writeHead(status, {"Content-Type": contentType}); res.end(...)
Responded(x, status, contentType, json, file) ==
  [x EXCEPT !.state = "answered", !.heads = @ + 1, !.ends = @ + 1, !.status = status,
            !.contentType = contentType, !.json = json, !.file = file]

\* one of the three JSON branches, from its test of the pathname to its return
JsonAnswered(x, route, q, response) ==
  Responded([x EXCEPT !.route = route], response.status, "application/json", response.body, <<>>)

\* a static branch up to its return: fs.readFile is under way
FileRequested(x, route, pathname) ==
  [x EXCEPT !.state = "reading", !.route = route, !.filePath = FileOfRoute(route, pathname)]

\* the callback of fs.readFile
FileAnswered(x, outcome) ==
  IF outcome = "err"
  THEN Responded(x, ErrorStatusOfRoute(x.route), "text/plain", NoBody, <<>>)
  ELSE Responded(x, 200, ContentTypeOfRoute(x.route, x.filePath), NoBody, x.filePath)

\* the handler from its first line to its return, for a target url.parse accepts
Handled(x, parsed, at, hc) ==
  IF RouteOf(x.method, parsed.pathname) \in JsonRoutes
  THEN JsonAnswered(x, RouteOf(x.method, parsed.pathname), parsed.query,
                    HandlerResponse(RouteOf(x.method, parsed.pathname), parsed.query, at, hc))
  ELSE FileRequested(x, RouteOf(x.method, parsed.pathname), parsed.pathname)

\* an exception leaves the "request" listener: nothing catches it, the process
\* ends, and every request not yet answered loses its connection
ProcessExited(requests) ==
  [s \in DOMAIN requests |->
     IF requests[s].state \in {"pending", "reading"}
     THEN [requests[s] EXCEPT !.state = "dropped"] ELSE requests[s]]

\* the requests of the clients
ServerQueries ==
  {[date |-> Present(SampleDate), time |-> Present(SampleTime), source |-> Present(NewYork)],
   [date |-> Absent(<<>>), time |-> Present(SampleTime), source |-> Absent("")]}
ServerPaths ==
  {<<>>, <<ScriptJs>>, <<StylesCss>>, <<IndexHtml>>, <<Seg("logo", ".png")>>,
   <<DotDot, ServerJs>>, <<DotDot, DotDot, Seg("etc", ""), Seg("passwd", "")>>,
   <<Seg("img", ""), DotDot, IndexHtml>>, <<Seg("%2e%2e", ""), ServerJs>>}
ServerRequests ==
  {[method |-> "GET", target |-> OriginForm(p, NoQuery)] : p \in ServerPaths}
  \cup {[method |-> "GET", target |-> OriginForm(<<Seg("current", "")>>, NoQuery)]}
  \cup {[method |-> "GET", target |-> OriginForm(<<Seg(ep, "")>>, q)] :
          ep \in {"convert-multi", "convert"}, q \in ServerQueries}
  \cup {[method |-> "POST", target |-> OriginForm(p, NoQuery)] : p \in {<<>>, <<Seg("convert", "")>>}}
  \cup {[method |-> "GET", target |-> AbsoluteForm(a, <<ScriptJs>>, NoQuery)] : a \in {"", "%"}}

\* the clock reading of the /current handler
ServerInstants == {[sec |-> DateUTC(2025, 0, 15, 17, 30, 0), ms |-> 0]}

InitServer ==
  /\ hourCycle \in HourCycles
  /\ inflight = [s \in Slots |-> NoExchange]
  /\ NoPage
  /\ pc = "idle"
  /\ op = "none"
  /\ dateStr = <<>>
  /\ timeStr = <<>>
  /\ sourceTimezone = ""
  /\ now = NoDate
  /\ query = NoQuery
  /\ ret = NoReturn
  /\ res = NoResponse
  /\ calls = NoCalls

\* the process is running
ProcessAlive == \A s \in Slots : inflight[s].state # "dropped"

\* a request arrives: the "request" event is queued
RequestArrived ==
  /\ ProcessAlive
  /\ \E s \in Slots, r \in ServerRequests :
       /\ inflight[s].state = "free"
       /\ inflight' = [inflight EXCEPT ![s] = [NoExchange EXCEPT !.state = "pending",
                                                 !.method = r.method, !.target = r.target]]
  /\ UNCHANGED <<hourCycle, serverVars, pageVars>>

\* the "request" listener runs for a queued request, from url.parse to its
\* return or to the exception
RequestHandled ==
  /\ ProcessAlive
  /\ \E s \in Slots, at \in ServerInstants :
       /\ inflight[s].state = "pending"
       /\ inflight' =
            IF urlParse(inflight[s].target).kind = "ok"
            THEN [inflight EXCEPT ![s] = Handled(@, urlParse(inflight[s].target), at, hourCycle)]
            ELSE ProcessExited(inflight)
  /\ UNCHANGED <<hourCycle, serverVars, pageVars>>

\* fs.readFile calls back
FileRead ==
  /\ ProcessAlive
  /\ \E s \in Slots :
       /\ inflight[s].state = "reading"
       /\ \E outcome \in ReadOutcomes(inflight[s].filePath) :
            inflight' = [inflight EXCEPT ![s] = FileAnswered(@, outcome)]
  /\ UNCHANGED <<hourCycle, serverVars, pageVars>>

\* the response has been sent; the request is gone
ResponseSent ==
  /\ \E s \in Slots :
       /\ inflight[s].state = "answered"
       /\ inflight' = [inflight EXCEPT ![s] = NoExchange]
  /\ UNCHANGED <<hourCycle, serverVars, pageVars>>

NextServer == RequestArrived \/ RequestHandled \/ FileRead \/ ResponseSent

SpecServer == InitServer /\ [][NextServer]_vars

(***************************************************************************)
(* The page script (the second DOMContentLoaded listener): five cards,     *)
(* each with a time input, and one date input.  A state is the page        *)
(* between two turns of the event loop; an action is one turn: an event    *)
(* handler, or an async function from one await to the next (or from the   *)
(* return of the call it awaited).  The document                           *)
(* is the card markup of the README: the card element comes before its     *)
(* input and carries the same data-timezone attribute.                     *)
(***************************************************************************)
\* the list literal of the script
supportedTimezones == <<Santiago, NewYork, BuenosAires, Bogota, SantoDomingo>>

\* the zones with a card on the page: the keys of timezoneData
CardZones == {Santiago, NewYork, BuenosAires, Bogota, SantoDomingo}

\* Intl.DateTimeFormat().resolvedOptions().timeZone: a browser in a zone of
\* the list other than the default, and one in a zone outside the list
BrowserZones == {NewYork, Tokyo}

\* let lastEditedTimezone = supportedTimezones.includes(userTimezone) ? ... : ...
InitialTimezone(zone) ==
  IF \E i \in 1..Len(supportedTimezones) : supportedTimezones[i] = zone THEN zone ELSE Santiago

\* a valid time string of an <input type="time">: HH:MM, 00..23 and 00..59
ValidTimeString(v) ==
  /\ Len(v) = 5 /\ v[3] = ":" /\ IsDigit(v[1]) /\ IsDigit(v[2]) /\ IsDigit(v[4]) /\ IsDigit(v[5])
  /\ DigitVal(v[1]) * 10 + DigitVal(v[2]) <= 23
  /\ DigitVal(v[4]) * 10 + DigitVal(v[5]) <= 59

\* input.value = v on a time input: a string that is no valid time leaves
\* the input empty
TimeInputValue(v) == IF ValidTimeString(v) THEN v ELSE <<>>

\* parseInt(s, 10) of a string without sign: its leading digits, NaN without any
RECURSIVE LeadingDigits(_)
LeadingDigits(str) ==
  IF str = <<>> \/ ~IsDigit(Head(str)) THEN <<>> ELSE <<Head(str)>> \o LeadingDigits(Tail(str))
ParseInt(str) == IF LeadingDigits(str) = <<>> THEN NaN ELSE Num(DecimalValue(LeadingDigits(str)))

\* hour >= 12 ? "PM" : "AM", false for NaN
AmPmOfHour(hour) == IF hour.tag = "num" /\ hour.v >= 12 THEN "PM" ELSE "AM"

\* updateAmPmDisplay: the text for time24
AmPmOf(time24) == AmPmOfHour(ParseInt(Split(time24, ":")[1]))

\* data[timezone] is truthy: the key is there and its value is not empty
HasEntry(data, timezone) == timezone \in DOMAIN data.vals /\ data.vals[timezone] # <<>>

\* the forEach of convertTimes over the time inputs
AppliedInputs(inputs, data) ==
  [tz \in DOMAIN inputs |->
     IF HasEntry(data, tz) THEN TimeInputValue(data.vals[tz]) ELSE inputs[tz]]
AppliedAmPm(displays, data) ==
  [tz \in DOMAIN displays |-> IF HasEntry(data, tz) THEN AmPmOf(data.vals[tz]) ELSE displays[tz]]

\* the forEach of loadInitialTimes: every input but Santiago's
LoadedInputs(inputs, conversions) ==
  [tz \in DOMAIN inputs |->
     IF tz # Santiago /\ HasEntry(conversions, tz) THEN TimeInputValue(conversions.vals[tz])
     ELSE inputs[tz]]
LoadedAmPm(displays, conversions) ==
  [tz \in DOMAIN displays |->
     IF tz # Santiago /\ HasEntry(conversions, tz) THEN AmPmOf(conversions.vals[tz])
     ELSE displays[tz]]

\* highlightActiveTimezone: the class is taken from every card and given to
\* the first element with the attribute, the card of that zone
HighlightOf(activeTimezone) == IF activeTimezone \in CardZones THEN {activeTimezone} ELSE {}

\* convertTimes without its finally block: the flag stays as the try block left it
AfterFinally_NoReset(flag) == flag

\* finally { isUpdating = false }
AfterFinally(flag) == FALSE

\* isUpdating = true; forEach(...); isUpdating = false in loadInitialTimes
AfterLoadLoop(flag) == FALSE

\* the query string convertTimes builds, as the server parses it
QueryOf(source, date, time) ==
  [date |-> Present(date), time |-> Present(time), source |-> Present(source)]

\* a convertTimes call waiting at its await fetch(...)
FetchingTask(id, source, date, time, awaited) ==
  [id |-> id, sourceTimezone |-> source, date |-> date, time |-> time,
   stage |-> "fetch", data |-> NoResults, awaited |-> awaited]

\* the edits the user makes on the page: a time of the small hours, and the
\* day on which Santiago's clocks go back
MaxEdits == 2
EditedZones == {Santiago, NewYork}
TypedTimes == {TimeString(1, 30)}
PickedDates == {DateString([year |-> 2025, month |-> 4, day |-> 6])}

\* the clock reading of the /current handler, and of the browser in the fallbacks
PageInstants == {[sec |-> DateUTC(2025, 0, 15, 17, 30, 0), ms |-> 0]}

\* how a fetch of the page ends: answered by the server, answered with an error
\* status on the way, or rejected
FetchOutcomes == {"served", "error status", "network error"}

\* the server has no part in the page's turns
ServerIdle ==
  /\ inflight = <<>>
  /\ pc = "idle"
  /\ op = "none"
  /\ dateStr = <<>>
  /\ timeStr = <<>>
  /\ sourceTimezone = ""
  /\ now = NoDate
  /\ query = NoQuery
  /\ ret = NoReturn
  /\ res = NoResponse
  /\ calls = NoCalls

\* the listener has run: the variables are declared and loadInitialTimes()
\* waits at its await fetch("/current")
InitFrontEnd ==
  /\ hourCycle \in HourCycles
  /\ ServerIdle
  /\ userTimezone \in BrowserZones
  /\ lastEditedTimezone = InitialTimezone(userTimezone)
  /\ isUpdating = FALSE
  /\ dateInput = <<>>
  /\ timeInputs = [z \in CardZones |-> <<>>]
  /\ cardValue = [z \in CardZones |-> <<>>]
  /\ ampm = [z \in CardZones |-> "AM"]
  /\ highlighted = {}
  /\ statusMessage = "loading"
  /\ load = [stage |-> "fetch", data |-> NoBody, at |-> NoDate]
  /\ tasks = {}
  /\ nextId = 1
  /\ lastEdit = [kind |-> "none", timezone |-> "", date |-> <<>>, time |-> <<>>, taken |-> FALSE,
                 early |-> FALSE]
  /\ suppressed = FALSE
  /\ failed = FALSE
  /\ edits = 0

\* convertTimes(source, date, time) from its first line to its await fetch(...),
\* beside the calls still waiting; if (isUpdating) return leaves at once
convertTimesCalled(waiting, flag, source, date, time, awaited) ==
  /\ tasks' = IF flag THEN waiting
              ELSE waiting \cup {FetchingTask(nextId, source, date, time, awaited)}
  /\ nextId' = IF flag THEN nextId ELSE nextId + 1
  /\ statusMessage' = IF flag THEN statusMessage ELSE "loading"

\* loadInitialTimes, the else branch of if (response.ok): the browser's date
\* and the clock of lastEditedTimezone, then a conversion from them
FallbackConverted(currentDate, userTime) ==
  /\ dateInput' = currentDate
  /\ cardValue' = [cardValue EXCEPT ![lastEditedTimezone] = userTime]
  /\ ampm' = [ampm EXCEPT ![lastEditedTimezone] = AmPmOf(userTime)]
  /\ convertTimesCalled(tasks, isUpdating, lastEditedTimezone, currentDate, userTime, "none")
  /\ load' = [stage |-> "done", data |-> NoBody, at |-> NoDate]
  /\ failed' = TRUE
  /\ UNCHANGED <<userTimezone, lastEditedTimezone, isUpdating, timeInputs, highlighted,
                 lastEdit, suppressed, edits>>

\* loadInitialTimes, the catch block: the same values and no conversion
FallbackLocal(currentDate, userTime) ==
  /\ dateInput' = currentDate
  /\ cardValue' = [cardValue EXCEPT ![lastEditedTimezone] = userTime]
  /\ ampm' = [ampm EXCEPT ![lastEditedTimezone] = AmPmOf(userTime)]
  /\ statusMessage' = "warning"
  /\ load' = [stage |-> "done", data |-> NoBody, at |-> NoDate]
  /\ failed' = TRUE
  /\ UNCHANGED <<userTimezone, lastEditedTimezone, isUpdating, timeInputs, highlighted,
                 tasks, nextId, lastEdit, suppressed, edits>>

\* loadInitialTimes after await fetch("/current"): if (response.ok), its else
\* branch, and the catch block for a rejected fetch
CurrentSettled(outcome, response, at, currentDate, userTime) ==
  IF outcome = "network error" THEN FallbackLocal(currentDate, userTime)
  ELSE IF outcome = "served" /\ response.status = 200
  THEN /\ load' = [stage |-> "json", data |-> response.body, at |-> at]
       /\ UNCHANGED <<userTimezone, lastEditedTimezone, isUpdating, dateInput, timeInputs,
                      cardValue, ampm, highlighted, statusMessage, tasks, nextId, lastEdit,
                      suppressed, failed, edits>>
  ELSE FallbackConverted(currentDate, userTime)

\* loadInitialTimes: await fetch("/current") settles
CurrentFetched ==
  /\ load.stage = "fetch"
  /\ \E at \in PageInstants :
       \/ CurrentSettled("served", currentResponse(at, hourCycle), at,
                         ISODate(at), formatHHMM(at, lastEditedTimezone, hourCycle))
       \/ \E outcome \in FetchOutcomes \ {"served"} :
            CurrentSettled(outcome, NoResponse, at,
                           ISODate(at), formatHHMM(at, lastEditedTimezone, hourCycle))
  /\ UNCHANGED <<hourCycle, serverVars, inflight>>

\* loadInitialTimes from await response.json() to await convertTimes(...);
\* when convertTimes returns at its guard, on to the end of the try block
CurrentParsed ==
  /\ load.stage = "json"
  /\ dateInput' = load.data.date
  /\ cardValue' = [cardValue EXCEPT ![lastEditedTimezone] = load.data.time]
  /\ timeInputs' = LoadedInputs(timeInputs, load.data.results)
  /\ ampm' = LoadedAmPm([ampm EXCEPT ![lastEditedTimezone] = AmPmOf(load.data.time)],
                        load.data.results)
  /\ isUpdating' = AfterLoadLoop(isUpdating)
  /\ convertTimesCalled(tasks, AfterLoadLoop(isUpdating), lastEditedTimezone,
                        load.data.date, load.data.time, "load")
  /\ IF AfterLoadLoop(isUpdating)
     THEN /\ load' = [load EXCEPT !.stage = "done"]
          /\ highlighted' = HighlightOf(lastEditedTimezone)
     ELSE /\ load' = [load EXCEPT !.stage = "convert"]
          /\ highlighted' = highlighted
  /\ UNCHANGED <<userTimezone, lastEditedTimezone, lastEdit, suppressed, failed, edits>>
  /\ UNCHANGED <<hourCycle, serverVars, inflight>>

\* handleTimeInputChange: the user sets the time input of a card
TimeInputEdited ==
  /\ load.stage \notin {"none", "resume"}
  /\ edits < MaxEdits
  /\ \E zone \in EditedZones, time \in TypedTimes :
       /\ timeInputs' = [timeInputs EXCEPT ![zone] = time]
       /\ IF dateInput # <<>> /\ time # <<>> /\ ~isUpdating
          THEN /\ lastEditedTimezone' = zone
               /\ ampm' = [ampm EXCEPT ![zone] = AmPmOf(time)]
               /\ convertTimesCalled(tasks, isUpdating, zone, dateInput, time, "none")
               /\ lastEdit' = [kind |-> "time", timezone |-> zone, date |-> dateInput,
                               time |-> time, taken |-> TRUE,
                               early |-> (lastEdit.early \/ load.stage # "done")]
               /\ suppressed' = suppressed
          ELSE /\ lastEdit' = [kind |-> "time", timezone |-> zone, date |-> dateInput,
                               time |-> time, taken |-> FALSE,
                               early |-> (lastEdit.early \/ load.stage # "done")]
               /\ suppressed' = (suppressed \/ (dateInput # <<>> /\ time # <<>> /\ isUpdating))
               /\ UNCHANGED <<lastEditedTimezone, ampm, tasks, nextId, statusMessage>>
  /\ edits' = edits + 1
  /\ UNCHANGED <<userTimezone, isUpdating, dateInput, cardValue, highlighted, load, failed>>
  /\ UNCHANGED <<hourCycle, serverVars, inflight>>

\* handleDateChange: the user picks a date other than the one shown (the
\* change event).  sourceInput is the first element with the attribute, the
\* card, and its value is what loadInitialTimes set
DateEdited ==
  /\ load.stage \notin {"none", "resume"}
  /\ edits < MaxEdits
  /\ \E date \in PickedDates :
       /\ dateInput # date
       /\ dateInput' = date
       /\ IF date # <<>> /\ ~isUpdating /\ cardValue[lastEditedTimezone] # <<>>
          THEN /\ convertTimesCalled(tasks, isUpdating, lastEditedTimezone, date,
                                     cardValue[lastEditedTimezone], "none")
               /\ suppressed' = suppressed
          ELSE /\ suppressed' = (suppressed \/ (date # <<>> /\ isUpdating))
               /\ UNCHANGED <<tasks, nextId, statusMessage>>
  /\ lastEdit' = [lastEdit EXCEPT !.kind = "date",
                                  !.early = (lastEdit.early \/ load.stage # "done")]
  /\ edits' = edits + 1
  /\ UNCHANGED <<userTimezone, lastEditedTimezone, isUpdating, timeInputs, cardValue, ampm,
                 highlighted, load, failed>>
  /\ UNCHANGED <<hourCycle, serverVars, inflight>>

\* the awaited convertTimes call has ended: loadInitialTimes is queued to go
\* on after its await convertTimes(...), ahead of every other handler
LoadResumed(awaited) == IF awaited = "load" THEN [load EXCEPT !.stage = "resume"] ELSE load

\* convertTimes with a finally block and no catch block: the status message
\* stays as the try block set it
ConvertFailed_NoCatch(t) ==
  /\ statusMessage' = statusMessage
  /\ isUpdating' = AfterFinally(isUpdating)
  /\ tasks' = tasks \ {t}
  /\ failed' = TRUE
  /\ load' = LoadResumed(t.awaited)
  /\ UNCHANGED <<userTimezone, lastEditedTimezone, dateInput, timeInputs, cardValue, ampm,
                 highlighted, nextId, lastEdit, suppressed, edits>>

\* convertTimes: the catch block and the finally block
ConvertFailed(t) ==
  /\ statusMessage' = "error"
  /\ isUpdating' = AfterFinally(isUpdating)
  /\ tasks' = tasks \ {t}
  /\ failed' = TRUE
  /\ load' = LoadResumed(t.awaited)
  /\ UNCHANGED <<userTimezone, lastEditedTimezone, dateInput, timeInputs, cardValue, ampm,
                 highlighted, nextId, lastEdit, suppressed, edits>>

\* convertTimes after await fetch(...): a response that is ok is kept for
\* json(); any other, and a rejected fetch, is thrown into the catch block
ConvertSettled(t, outcome, response) ==
  IF outcome = "served" /\ response.status = 200
  THEN /\ tasks' = (tasks \ {t}) \cup {[t EXCEPT !.stage = "json", !.data = response.body.results]}
       /\ UNCHANGED <<userTimezone, lastEditedTimezone, isUpdating, dateInput, timeInputs,
                      cardValue, ampm, highlighted, statusMessage, load, nextId, lastEdit,
                      suppressed, failed, edits>>
  ELSE ConvertFailed(t)

\* convertTimes: await fetch("/convert-multi?...") settles
ConvertFetched ==
  /\ load.stage # "resume"
  /\ \E t \in tasks :
       /\ t.stage = "fetch"
       /\ \/ ConvertSettled(t, "served",
                            convertMultiResponse(QueryOf(t.sourceTimezone, t.date, t.time), hourCycle))
          \/ \E outcome \in FetchOutcomes \ {"served"} : ConvertSettled(t, outcome, NoResponse)
  /\ UNCHANGED <<hourCycle, serverVars, inflight>>

\* convertTimes from await response.json() to its end: the response is applied
ConvertParsed ==
  /\ load.stage # "resume"
  /\ \E t \in tasks :
       /\ t.stage = "json"
       /\ timeInputs' = AppliedInputs(timeInputs, t.data)
       /\ ampm' = AppliedAmPm(ampm, t.data)
       /\ highlighted' = HighlightOf(t.sourceTimezone)
       /\ statusMessage' = "success"
       /\ isUpdating' = AfterFinally(TRUE)
       /\ tasks' = tasks \ {t}
       /\ load' = LoadResumed(t.awaited)
  /\ UNCHANGED <<userTimezone, lastEditedTimezone, dateInput, cardValue, nextId, lastEdit,
                 suppressed, failed, edits>>
  /\ UNCHANGED <<hourCycle, serverVars, inflight>>

\* loadInitialTimes from the return of the awaited convertTimes(...) to the
\* end of its try block
LoadContinued ==
  /\ load.stage = "resume"
  /\ highlighted' = HighlightOf(lastEditedTimezone)
  /\ load' = [load EXCEPT !.stage = "done"]
  /\ UNCHANGED <<userTimezone, lastEditedTimezone, isUpdating, dateInput, timeInputs,
                 cardValue, ampm, statusMessage, tasks, nextId, lastEdit, suppressed, failed,
                 edits>>
  /\ UNCHANGED <<hourCycle, serverVars, inflight>>

NextFrontEnd ==
  \/ CurrentFetched
  \/ CurrentParsed
  \/ LoadContinued
  \/ TimeInputEdited
  \/ DateEdited
  \/ ConvertFetched
  \/ ConvertParsed

SpecFrontEnd == InitFrontEnd /\ [][NextFrontEnd]_vars

(***************************************************************************)
(* Vocabulary of the properties                                            *)
(***************************************************************************)
\* the zone -> "HH:MM" mapping the operation produced, and whether it produced one
Results == IF op = "convertTime" THEN ret.results ELSE res.body.results
Converted ==
  \/ op = "convertTime" /\ ret.kind = "ok"
  \/ op \in {"/current", "/convert-multi", "/convert"} /\ res.status = 200
Keys(r) == {r.keys[i] : i \in 1..Len(r.keys)}

\* the minute of the day an "HH:MM" string names; 24:MM is 00:MM
MinuteOfDay(hhmm) ==
  (Component(hhmm, ":", 1).v * 60 + Component(hhmm, ":", 2).v) % MinPerDay

\* the minute of the day zone tz's clocks show at the instant sec, from the rules
WallClockMinute(sec, tz) ==
  ((sec + ZoneOffset(tz, sec) * SecPerMinute) % SecPerDay) \div SecPerMinute

ZoneOffsets == {-300, -240, -180, 540}

\* re-resolving hhmm in zone tz: the instants, on the days around day, at which
\* tz's clocks show hhmm
Resolve(hhmm, tz, day) ==
  {t \in {(day + k) * SecPerDay + (MinuteOfDay(hhmm) - o) * SecPerMinute :
            k \in -2..2, o \in ZoneOffsets} :
     WallClockMinute(t, tz) = MinuteOfDay(hhmm)}

\* the UTC day of the civil fields of the operation's arguments
AnchorDay == anchorUTC(dateStr, timeStr).sec \div SecPerDay

\* C1: every entry of a returned mapping is the wall-clock time of one and the
\* same instant T in the entry's zone: re-resolving the first entry gives an
\* instant at which every other zone's clocks show that zone's entry.
C1_SameInstant ==
  (Converted /\ Results.keys # <<>>) =>
    \E T \in Resolve(Results.vals[Results.keys[1]], Results.keys[1], AnchorDay) :
      \A z \in Keys(Results) : WallClockMinute(T, z) = MinuteOfDay(Results.vals[z])

\* a five-zone answer of /convert-multi whose entries show different clock times
C1_Witness ==
  /\ op = "/convert-multi" /\ res.status = 200 /\ Len(Results.keys) = 5
  /\ Results.vals[Santiago] # Results.vals[Bogota]
  /\ Results.vals[NewYork] # Results.vals[BuenosAires]

\* whether the strings are a calendar date and a clock time with every field
\* present, numeric and in range (month 1..12, day 1..31, hour 0..23, minute 0..59)
InRange(x, lo, hi) == x.tag = "num" /\ lo <= x.v /\ x.v <= hi
ValidCivil(date, time) ==
  LET p == ParsedFields(date, time)
  IN  /\ Len(Split(date, "-")) = 3 /\ Len(Split(time, ":")) = 2
      /\ \A piece \in {Split(date, "-")[i] : i \in 1..3} \cup {Split(time, ":")[i] : i \in 1..2} :
           piece # <<>> /\ AllDigits(piece)
      /\ InRange(p.year, 1, 9999) /\ InRange(p.month, 1, 12) /\ InRange(p.day, 1, 31)
      /\ InRange(p.hour, 0, 23) /\ InRange(p.minute, 0, 59)

\* the operation converted a well-formed, in-range civil time of a zone the
\* formatter supports
ValidInput == ValidCivil(dateStr, timeStr) /\ sourceTimezone \in SupportedByFormatter

\* the offsets zone tz can have when its clocks show the civil time (dateStr,
\* timeStr): none inside a spring-forward gap, two inside a fall-back overlap
CivilOffsets(date, time, tz) ==
  {o \in ZoneOffsets : ZoneOffset(tz, anchorUTC(date, time).sec - o * SecPerMinute) = o}

\* C2 (as claimed): for a valid date and time (one that the source zone's clocks
\* show exactly once) and a listed source zone, the all-zones conversion gives
\* back, for the source zone itself, the HH:MM that was put in.
C2_RoundTrip ==
  (op = "/convert-multi" /\ ValidInput /\ res.status = 200
     /\ Cardinality(CivilOffsets(dateStr, timeStr, sourceTimezone)) = 1
     /\ sourceTimezone \in Keys(Results))
    => Results.vals[sourceTimezone] = timeStr

\* the target-zone entry of the all-zones conversion of (date, time) in zone src
TargetTime(date, time, src, tz, hc) == convertAll(date, time, src, hc).results.vals[tz]

\* C3 (as claimed): for a source zone with DST and a target zone without, the
\* same clock time on a date before and on a date after the source's transition
\* (the civil time has one offset on the first date and another on the second)
\* gives target times that differ by exactly the source's offset change.
C3_DstJump ==
  (op = "/convert-multi" /\ ValidInput /\ res.status = 200 /\ ObservesDST(sourceTimezone))
    => \A before \in WellFormedDates :
         LET o1 == CivilOffsets(before, timeStr, sourceTimezone)
             o2 == CivilOffsets(dateStr, timeStr, sourceTimezone)
         IN  (/\ anchorUTC(before, timeStr).sec < anchorUTC(dateStr, timeStr).sec
              /\ Cardinality(o1) = 1 /\ Cardinality(o2) = 1 /\ o1 # o2)
             => \A z \in {Bogota, BuenosAires, SantoDomingo} :
                  MinuteOfDay(Results.vals[z])
                    = (MinuteOfDay(TargetTime(before, timeStr, sourceTimezone, z, hourCycle))
                         + (CHOOSE o \in o1 : TRUE) - (CHOOSE o \in o2 : TRUE)) % MinPerDay

ResolverCalled ==
  op \in {"convertTime", "calculateEpochFromTimezone"} /\ sourceTimezone \in SupportedByFormatter
RejectedAsInvalid ==
  ret.kind = "Error" /\ ret.message = InvalidFormatMessage /\ ret.results = NoResults

\* some parsed field is a number outside its range
HasOutOfRangeField(date, time) ==
  LET p == ParsedFields(date, time)
      out(x, lo, hi) == x.tag = "num" /\ (x.v < lo \/ x.v > hi)
  IN  out(p.month, 1, 12) \/ out(p.day, 1, 31) \/ out(p.hour, 0, 23) \/ out(p.minute, 0, 59)

\* C5 (as claimed): a date or time with an out-of-range component, or an empty
\* date or time string, is rejected with "Invalid date or time format" by
\* convertTime and calculateEpochFromTimezone.
C5_OutOfRangeRejected ==
  (ResolverCalled /\ (HasOutOfRangeField(dateStr, timeStr) \/ dateStr = <<>> \/ timeStr = <<>>))
    => RejectedAsInvalid

\* a piece of the string that is present, not empty and no number
NonNumericPiece(str, sep, n) ==
  \E i \in 1..n : i <= Len(Split(str, sep)) /\ Split(str, sep)[i] # <<>>
                    /\ StringToNumber(Split(str, sep)[i]).tag = "nan"
\* the time has nothing where its minute should be
MissingMinute(time) == Len(Split(time, ":")) < 2 \/ Split(time, ":")[2] = <<>>
ZeroDateField(date) ==
  LET p == ParsedFields(date, SampleTime)
  IN  \E x \in {p.year, p.month, p.day} : x.tag = "num" /\ x.v = 0

\* C6 (as claimed): a date with a zero year, month or day, a date or time with a
\* non-numeric component, and a time with a missing minute are each rejected
\* with "Invalid date or time format" by both resolvers.
C6_ZeroOrMissingRejected ==
  (ResolverCalled /\ (\/ ZeroDateField(dateStr)
                      \/ NonNumericPiece(dateStr, "-", 3) \/ NonNumericPiece(timeStr, ":", 2)
                      \/ MissingMinute(timeStr)))
    => RejectedAsInvalid

\* C7 (as claimed): getOffset returns a whole number of minutes, equal to the
\* zone's UTC offset at the instant, negative west of UTC and positive east.
C7_OffsetExact ==
  op = "getOffset" =>
    /\ OffsetIsWholeMinutes(ret.offsetMs)
    /\ ret.offsetMs = ZoneOffset(sourceTimezone, now.sec) * MsPerMinute
    /\ (sourceTimezone \in Keys([keys |-> allZones]) => ret.offsetMs < 0)
    /\ (sourceTimezone = Tokyo => ret.offsetMs > 0)

\* C8: /convert-multi answers every valid input of a supported source zone, and
\* /current every request, with a mapping whose keys are exactly the five listed
\* zones, the source included, in the order of the list.
C8_AllZonesKeys ==
  /\ (op = "/convert-multi" /\ ValidInput) => (res.status = 200 /\ Results.keys = allZones)
  /\ op = "/current" => (res.status = 200 /\ Results.keys = allZones)
  /\ (op \in {"/convert-multi", "/current"} /\ res.status = 200) => Results.keys = allZones

\* /convert-multi answered for a source other than the default one
C8_Witness ==
  /\ op = "/convert-multi" /\ res.status = 200 /\ sourceTimezone = NewYork
  /\ Results.keys = allZones /\ NewYork \in DOMAIN Results.vals

\* C9: the mapping of convertTime and /convert has the listed zones other than
\* the source as its keys, each once: never the source, and all five when the
\* source is a supported zone outside the list.
C9_LegacyKeys ==
  (op \in {"convertTime", "/convert"} /\ Converted) =>
    /\ Keys(Results) = {allZones[i] : i \in 1..Len(allZones)} \ {sourceTimezone}
    /\ Len(Results.keys) = Cardinality(Keys(Results))
    /\ DOMAIN Results.vals = Keys(Results)
    /\ (sourceTimezone = Tokyo => Len(Results.keys) = 5)

\* /convert answered for a source in the list: four keys, the source not among them
C9_Witness ==
  /\ op = "/convert" /\ res.status = 200 /\ sourceTimezone = Bogota
  /\ Len(Results.keys) = 4 /\ Bogota \notin Keys(Results)

\* C10 (as claimed): every value of a conversion result is a five-character
\* HH:MM string, hour 00..23 and minute 00..59, midnight included.
C10_HHMMShape ==
  (Converted /\ ValidInput) =>
    \A z \in Keys(Results) :
      LET v == Results.vals[z]
      IN  /\ Len(v) = 5 /\ v[3] = ":"
          /\ InRange(Component(v, ":", 1), 0, 23)
          /\ InRange(Component(v, ":", 2), 0, 59)

\* the operation made a call of the given name
Called(name) == \E i \in 1..Len(calls) : calls[i] = name

\* the request had both date and time, so the handler went on to its try block
HandlerCalled == op \in {"/convert", "/convert-multi"} /\ calls # NoCalls

\* the validation of the resolver the operation uses throws on its arguments
InvalidInputRaised ==
  \/ op \in {"convertTime", "/convert"} /\ Called("convertTime")
       /\ convertTimeRejects(dateStr, timeStr)
  \/ op \in {"calculateEpochFromTimezone", "/convert-multi"}
       /\ Called("calculateEpochFromTimezone") /\ calculateEpochRejects(dateStr, timeStr)

\* C11: when the validation throws, no offset was looked up and nothing was
\* formatted before it, the resolver leaves no mapping behind, and /convert and
\* /convert-multi answer 400 with a body that holds the error message and no
\* conversion entry.
C11_InvalidInputFatal ==
  InvalidInputRaised =>
    /\ ~Called("getOffset") /\ ~Called("format")
    /\ op \in {"convertTime", "calculateEpochFromTimezone"} =>
         (ret.kind = "Error" /\ ret.message = InvalidFormatMessage /\ ret.results = NoResults)
    /\ op \in {"/convert", "/convert-multi"} =>
         /\ res.status = 400
         /\ res.body = ErrorBody(InvalidFormatMessage)
         /\ res.body.results.keys = <<>>

\* /convert-multi was asked for a date that is no number and answered 400
C11_Witness ==
  /\ op = "/convert-multi" /\ dateStr \in NonNumericDates /\ timeStr = SampleTime
  /\ res.status = 400 /\ res.body.message = InvalidFormatMessage
  /\ calls = <<"calculateEpochFromTimezone">>

\* the formatter was asked for a zone it does not know: the arguments passed
\* the validation and the zone is unsupported
FormatterFailed ==
  /\ op \in {"convertTime", "calculateEpochFromTimezone"}
  /\ sourceTimezone \notin SupportedByFormatter
  /\ ~NonNumericPiece(dateStr, "-", 3) /\ ~NonNumericPiece(timeStr, ":", 2)
  /\ ~ZeroDateField(dateStr) /\ Len(Split(dateStr, "-")) >= 3 /\ Len(Split(timeStr, ":")) >= 2
  /\ dateStr # <<>>

\* C12: with an unsupported source zone and arguments that pass the validation,
\* both resolvers end with the formatter's RangeError, raised inside getOffset
\* and passed on as it is: its kind and message are the formatter's, not those
\* of the input error, and no mapping or epoch is returned.
C12_FormatterFailureUnchanged ==
  FormatterFailed =>
    /\ ret.kind = "RangeError"
    /\ ret.message = InvalidZoneMessage
    /\ ret.message # InvalidFormatMessage
    /\ calls[Len(calls)] = "getOffset"
    /\ ret.results = NoResults /\ ret.epoch = NoDate

\* calculateEpochFromTimezone was called for the sample date and time in an
\* unknown zone and threw the RangeError
C12_Witness ==
  /\ op = "calculateEpochFromTimezone" /\ sourceTimezone = UnknownZone
  /\ dateStr = SampleDate /\ timeStr = SampleTime
  /\ ret.kind = "RangeError"

\* the query of the request with its source parameter set to zone z
WithSource(q, z) == [q EXCEPT !.source = Present(z)]

\* C14: a request to /convert or /convert-multi without a source parameter, or
\* with an empty one, is answered as the same request with
\* source=America/Santiago; convertTime called with two arguments returns what
\* it returns with America/Santiago as the third; and a source that is given is
\* the zone handed to the resolver as it is.
C14_DefaultSource ==
  /\ (HandlerCalled /\ (~query.source.present \/ query.source.s = "")) =>
        /\ op = "/convert-multi" => res = convertMultiResponse(WithSource(query, Santiago), hourCycle)
        /\ op = "/convert" => res = convertResponse(WithSource(query, Santiago), hourCycle)
        /\ ValidCivil(dateStr, timeStr) => res.status = 200
  /\ (HandlerCalled /\ query.source.present /\ query.source.s # "") =>
        /\ op = "/convert-multi" =>
             res = ConversionAnswer(convertAll(dateStr, timeStr, query.source.s, hourCycle))
        /\ op = "/convert" =>
             res = ConversionAnswer(convertTime(dateStr, timeStr, query.source.s, hourCycle))
  /\ (op = "convertTime" /\ ~query.source.present) =>
        ret = ConversionReturned(convertTime(dateStr, timeStr, Santiago, hourCycle))
  /\ (op = "convertTime" /\ query.source.present) =>
        ret = ConversionReturned(convertTime(dateStr, timeStr, query.source.s, hourCycle))

\* /convert-multi answered a request with an empty source parameter as it
\* answers for Santiago: New York is two hours behind
C14_Witness ==
  /\ op = "/convert-multi" /\ query.source = Present("") /\ res.status = 200
  /\ dateStr = SampleDate /\ timeStr = SampleTime
  /\ Results.vals[Santiago] = SampleTime
  /\ Results.vals[NewYork] = <<"1", "2", ":", "3", "0">>

\* the request lacks its date or its time parameter, or has it empty
DateOrTimeMissing ==
  /\ op \in {"/convert", "/convert-multi"}
  /\ (~query.date.present \/ query.date.s = <<>> \/ ~query.time.present \/ query.time.s = <<>>)

\* C18: a request to /convert or /convert-multi whose date or time parameter is
\* missing or empty is answered 400 "Missing date or time query parameters"
\* and makes no call, whatever its source parameter is.
C18_MissingParams ==
  DateOrTimeMissing => (res.status = 400 /\ res.body = ErrorBody(MissingParamsMessage) /\ calls = NoCalls)

\* /convert was asked with an empty date and an unknown source zone
C18_Witness ==
  /\ op = "/convert" /\ query.date = Present(EmptyString) /\ query.time = Present(SampleTime)
  /\ query.source = Present(UnknownZone)
  /\ res.status = 400 /\ res.body.message = MissingParamsMessage

\* the mapping r without the entry of zone tz
WithoutEntry(r, tz) ==
  [keys |-> SelectSeq(r.keys, LAMBDA k : k # tz),
   vals |-> [k \in Keys(r) \ {tz} |-> r.vals[k]]]

\* C20: the legacy path and the multi path agree.  convertTime throws exactly
\* when calculateEpochFromTimezone throws on the same arguments, with the same
\* error, and otherwise resolves the same instant; and the answer of /convert is
\* the answer of /convert-multi to the same query with the source zone's entry
\* removed (the same error answer when the conversion fails).
C20_PathsAgree ==
  /\ op = "convertTime" =>
        /\ ret.kind = calculateEpochFromTimezone(dateStr, timeStr, sourceTimezone, hourCycle).kind
        /\ ret.message = calculateEpochFromTimezone(dateStr, timeStr, sourceTimezone, hourCycle).message
        /\ ret.epoch = calculateEpochFromTimezone(dateStr, timeStr, sourceTimezone, hourCycle).epoch
  /\ op = "/convert" =>
        /\ res.status = convertMultiResponse(query, hourCycle).status
        /\ res.status # 200 => res.body = convertMultiResponse(query, hourCycle).body
        /\ res.status = 200 =>
             res.body.results = WithoutEntry(convertMultiResponse(query, hourCycle).body.results,
                                             sourceTimezone)

\* /convert answered a New York time with four entries
C20_Witness ==
  /\ op = "/convert" /\ res.status = 200 /\ sourceTimezone = NewYork
  /\ Len(Results.keys) = 4 /\ dateStr = SampleDate /\ timeStr = SampleTime

\* the civil fields the strings name, as the formatter's fields of an instant
CivilFields(date, time) ==
  [year |-> ParsedFields(date, time).year.v, month |-> ParsedFields(date, time).month.v,
   day |-> ParsedFields(date, time).day.v, hour |-> ParsedFields(date, time).hour.v,
   minute |-> ParsedFields(date, time).minute.v, second |-> 0]

\* C17 (as claimed): for a valid civil date and time of a supported zone, both
\* resolvers return utcMillis(civil fields) - getOffset(anchor, source) * 60000,
\* the anchor being the civil fields read as UTC; and whenever the source zone's
\* offset at the anchor equals its offset at the resolved instant, the source
\* zone's local date and time at the resolved instant are the input's.
C17_AnchorResolution ==
  (ResolverCalled /\ ValidInput) =>
    /\ ret.kind = "ok"
    /\ ret.epoch = MinusMs(anchorUTC(dateStr, timeStr).sec,
                           getOffsetMs(anchorUTC(dateStr, timeStr), sourceTimezone, hourCycle))
    /\ (ZoneOffset(sourceTimezone, anchorUTC(dateStr, timeStr).sec)
          = ZoneOffset(sourceTimezone, ret.epoch.sec))
         => LocalFields(ret.epoch, sourceTimezone) = CivilFields(dateStr, timeStr)

\* what the request in slot s gets when it is the only request: the answer of
\* its handler to its own query at the clock reading the handler took
AnsweredAlone(s) ==
  CASE inflight[s].endpoint = "/current" -> currentResponse(inflight[s].at, hourCycle)
    [] inflight[s].endpoint = "/convert-multi" -> convertMultiResponse(inflight[s].query, hourCycle)
    [] inflight[s].endpoint = "/convert" -> convertResponse(inflight[s].query, hourCycle)

C19_IdleBetweenTurns == isUpdating = FALSE /\ suppressed = FALSE

\* a conversion was applied after another one had failed, and nothing waits
C19_Witness ==
  /\ load.stage = "done" /\ tasks = {} /\ edits >= 2
  /\ failed /\ statusMessage = "success" /\ isUpdating = FALSE
  /\ highlighted = {lastEdit.timezone}

\* the page is at rest after edits of time inputs that were all made once the
\* initial load had finished, the last of them taken up, and no request failed
EditsSettled ==
  /\ load.stage = "done" /\ tasks = {} /\ ~failed
  /\ lastEdit.kind = "time" /\ lastEdit.taken /\ ~lastEdit.early

\* the server's conversion of the most recent edit, as a time input shows it
ConversionOfLastEdit(z) ==
  TimeInputValue(convertMultiResponse(QueryOf(lastEdit.timezone, lastEdit.date, lastEdit.time),
                                      hourCycle).body.results.vals[z])

\* C15 (as claimed): once every request has completed successfully after a
\* sequence of time-input edits, every input but the one edited last shows
\* the conversion of that input's value, and the highlighted card is the one
\* edited last.
C15_LastEditWins ==
  EditsSettled =>
    /\ highlighted = {lastEdit.timezone}
    /\ \A z \in CardZones \ {lastEdit.timezone} : timeInputs[z] = ConversionOfLastEdit(z)

\* C16 (as claimed): after a successful initial load, with no edit made, each
\* time input shows the local time of its own zone at the instant /current
\* reported, in whatever zone the browser is.
C16_InitialTimes ==
  (load.stage = "done" /\ ~failed /\ edits = 0 /\ tasks = {}) =>
    \A z \in CardZones : timeInputs[z] = formatHHMM(load.at, z, "h23")

\* a well-formed "HH:MM" whose hour or minute is zero
ZeroHourOrMinute(time) ==
  /\ time \in WellFormedTimes
  /\ (Component(time, ":", 1).v = 0 \/ Component(time, ":", 2).v = 0)

\* every one of the five parsed fields is a number
AllFieldsNumbers(date, time) ==
  LET p == ParsedFields(date, time)
  IN  \A x \in {p.year, p.month, p.day, p.hour, p.minute} : x.tag = "num"

\* C21: a well-formed date with a well-formed time whose hour or minute is 0
\* passes the validation of both resolvers and is converted (the offset is
\* looked up, convertTime formats its zones, an epoch or a mapping comes back);
\* of the arguments whose five fields are all numbers, the ones rejected are
\* exactly those with a zero year, month or day.
C21_ZeroTimeAccepted ==
  ResolverCalled =>
    /\ (dateStr \in WellFormedDates /\ ZeroHourOrMinute(timeStr)) =>
          /\ ret.kind = "ok" /\ ~RejectedAsInvalid
          /\ Called("getOffset")
          /\ op = "convertTime" =>
               (Called("format") /\ Keys(ret.results) = Keys([keys |-> allZones]) \ {sourceTimezone})
          /\ op = "calculateEpochFromTimezone" => ret.epoch # NoDate
    /\ AllFieldsNumbers(dateStr, timeStr) => (RejectedAsInvalid <=> ZeroDateField(dateStr))

\* convertTime was called for midnight, 00:00, in New York and returned the
\* four other zones
C21_Witness ==
  /\ op = "convertTime" /\ sourceTimezone = NewYork
  /\ dateStr = SampleDate /\ timeStr = TimeString(0, 0)
  /\ ret.kind = "ok" /\ Len(ret.results.keys) = 4

\* C22 (as claimed): the date and time of a /current response are the calendar
\* date and the clock time in America/Santiago at the instant the handler read
\* the clock, and the America/Santiago entry of its conversions is the time
\* it reports.
C22_CurrentIsSantiagoNow ==
  (op = "/current" /\ res.status = 200) =>
    /\ res.body.date = DateString(LocalFields(now, Santiago))
    /\ res.body.time = formatHHMM(now, Santiago, "h23")
    /\ res.body.results.vals[Santiago] = res.body.time

\* the turn in which the request of the convertTimes call t fails: the call
\* waited for its fetch and is over after the turn, without a response to parse
RequestFailed(t) == t.stage = "fetch" /\ \A u \in tasks' : u.id # t.id

ResponseApplied(t) == t.stage = "json" /\ \A u \in tasks' : u.id # t.id

\* the call t converts the time the user typed into the input of t's source
\* zone, and that input still holds it
ConvertsTypedTime(t) ==
  /\ t.awaited = "none"
  /\ lastEdit.kind = "time" /\ lastEdit.taken
  /\ lastEdit.timezone = t.sourceTimezone /\ lastEdit.date = t.date /\ lastEdit.time = t.time
  /\ timeInputs[t.sourceTimezone] = t.time

\* C24 (as claimed): applying a successful response leaves the input the
\* user edited, the source of the conversion, as it is: after the update it
\* still holds the time the user typed.
C24_SourceInputKept ==
  [][\A t \in tasks :
       (ResponseApplied(t) /\ ConvertsTypedTime(t)) =>
         timeInputs'[t.sourceTimezone] = t.time]_vars

\* C25 (as claimed): every request gets exactly one response: while it waits
\* nothing has been written, once it is answered the status line has been
\* written once and the response ended once, and no request is left
\* without a response.
C25_ExactlyOneResponse ==
  \A s \in Slots :
    /\ inflight[s].state \in {"pending", "reading"} => (inflight[s].heads = 0 /\ inflight[s].ends = 0)
    /\ inflight[s].state = "answered" => (inflight[s].heads = 1 /\ inflight[s].ends = 1)
    /\ inflight[s].state # "dropped"

\* the path is the static directory or a path inside it
InsideStatic(filePath) ==
  Len(filePath) >= Len(StaticDir) /\ SubSeq(filePath, 1, Len(StaticDir)) = StaticDir

\* C26 (as claimed): the fallback route reads only files inside the static
\* directory, whatever the request path, and a 200 response of it carries a
\* file from there; every other path is answered 404.
C26_StaticOnly ==
  \A s \in Slots :
    (inflight[s].route = "fallback" /\ inflight[s].state \in {"reading", "answered"}) =>
      /\ inflight[s].state = "answered" =>
           (inflight[s].status = 200 <=> InsideStatic(inflight[s].file))
      /\ inflight[s].status # 200 => inflight[s].status \in {0, 404}
      /\ InsideStatic(inflight[s].filePath)

====
